---------------------------- MODULE Spec2Model ----------------------------
(***************************************************************************)
(* A model of the payment canister of packages/icp-canister:               *)
(*   payment_processor.rs  the payment lifecycle and its retry policy      *)
(*   service_registry.rs   the provider inventory and performance history  *)
(*   cost_optimizer.rs     usage history, per-chain statistics, routing    *)
(*   lib.rs                the entry points, the allow-list and the timer  *)
(*                                                                         *)
(* HashMap<K,V> is a function whose DOMAIN is the set of keys, Vec<T> a    *)
(* sequence, Result<T,String> a record [ok, val].  f64 values are exact    *)
(* rationals [k |-> "fin", n, d] extended with the IEEE specials a         *)
(* division by zero produces ("inf", "ninf", "nan"); rounding is not       *)
(* modelled.  The iteration order of a HashMap is unspecified: every       *)
(* operation that iterates one takes the order as an input.                *)
(***************************************************************************)
EXTENDS Integers, Sequences, FiniteSets, TLC

VARIABLES
    pending_payments,    \* PaymentProcessor.pending_payments
    completed_payments,  \* PaymentProcessor.completed_payments
    retry_counts,        \* PaymentProcessor.retry_counts
    providers,           \* ServiceRegistry.providers
    performance_history, \* ServiceRegistry.performance_history
    settings,            \* CostOptimizer.settings
    usage_history,       \* CostOptimizer.usage_history
    chain_costs,         \* CostOptimizer.chain_costs
    authorized_principals, \* AUTHORIZED_PRINCIPALS
    caller,              \* ic_cdk::caller() of the last call
    now,                 \* the last value ic_cdk::api::time() returned
    hasher,              \* DefaultHasher: the 64-bit hash of each payment id
    resp,                \* the last call: [op, arg, result]
    attempts,            \* history: backend invocations per payment id
    recorded,            \* history: per chain, what record_usage was given
    pushed               \* history: update_provider_performance calls per provider

vars == <<pending_payments, completed_payments, retry_counts, providers,
          performance_history, settings, usage_history, chain_costs,
          authorized_principals, caller, now, hasher, resp, attempts, recorded,
          pushed>>

processor_vars == <<pending_payments, completed_payments, retry_counts>>
registry_vars == <<providers, performance_history>>
optimizer_vars == <<settings, usage_history, chain_costs>>

-----------------------------------------------------------------------------
(* Bounds of the model. *)

MaxTime == 1
MaxUsage == 2       \* record_usage calls off the script of SpecRing, in SpecMetrics, SpecRebalance
MaxRouteUsage == 1  \* record_usage calls in SpecRoute
RingRecords == 1002 \* record_usage calls in SpecRing
RingPushes == 102   \* update_provider_performance calls in SpecRing
MaxPushes == 2      \* update_provider_performance calls in SpecRegistry

\* The principal that installed the canister (init puts it on the allow-list),
\* another identity, and Principal::anonymous().
Controller == "controller"
Anonymous == "2vxsx-fae"
Principals == {Controller, "mallory", Anonymous}

PaymentIds == {"p1", "p2"}
HashSamples == {0, 7, 20}
ProviderIds == {"A", "B"}
Chains == {"REI", "Polygon"}
AllChains == Chains \cup {"ETH"}
Amounts == {0, 100}
Windows == {0, 1, 50}

-----------------------------------------------------------------------------
(* Collections and results. *)

MapInsert(m, k, v) == [x \in (DOMAIN m) \cup {k} |-> IF x = k THEN v ELSE m[x]]

MapRemove(m, k) == [x \in (DOMAIN m) \ {k} |-> m[x]]

EmptyMap == [x \in {} |-> 0]

Ok(v) == [ok |-> TRUE, val |-> v]

Err(msg) == [ok |-> FALSE, val |-> msg]

Unit == "()"

-----------------------------------------------------------------------------
(* f64: exact rationals n/d in lowest terms with d > 0, and the specials.  *)

RECURSIVE GCD(_, _)
GCD(a, b) == IF b = 0 THEN a ELSE GCD(b, a % b)

Abs(a) == IF a < 0 THEN -a ELSE a

Fin(n, d) ==
    LET g == GCD(Abs(n), Abs(d))
        sg == IF d < 0 THEN -1 ELSE 1
    IN  [k |-> "fin", n |-> sg * (n \div g), d |-> sg * (d \div g)]

Inf == [k |-> "inf", n |-> 1, d |-> 0]
NInf == [k |-> "ninf", n |-> -1, d |-> 0]
NaN == [k |-> "nan", n |-> 0, d |-> 0]

\* `x as f64` for an unsigned integer x.
F64(i) == Fin(i, 1)

IsNaN(x) == x.k = "nan"

FSign(x) == IF x.n > 0 THEN 1 ELSE IF x.n < 0 THEN -1 ELSE 0

FNeg(x) ==
    CASE x.k = "fin" -> Fin(-x.n, x.d)
      [] x.k = "inf" -> NInf
      [] x.k = "ninf" -> Inf
      [] OTHER -> NaN

FAdd(x, y) ==
    CASE IsNaN(x) \/ IsNaN(y) -> NaN
      [] x.k = "fin" /\ y.k = "fin" -> Fin(x.n * y.d + y.n * x.d, x.d * y.d)
      [] x.k = "fin" -> y
      [] y.k = "fin" -> x
      [] x.k = y.k -> x
      [] OTHER -> NaN

FSub(x, y) == FAdd(x, FNeg(y))

FMul(x, y) ==
    CASE IsNaN(x) \/ IsNaN(y) -> NaN
      [] x.k = "fin" /\ y.k = "fin" -> Fin(x.n * y.n, x.d * y.d)
      [] FSign(x) * FSign(y) = 0 -> NaN
      [] FSign(x) * FSign(y) > 0 -> Inf
      [] OTHER -> NInf

FDiv(x, y) ==
    CASE IsNaN(x) \/ IsNaN(y) -> NaN
      [] x.k = "fin" /\ y.k = "fin" /\ y.n # 0 -> Fin(x.n * y.d, x.d * y.n)
      [] y.k = "fin" /\ y.n = 0 ->
            IF FSign(x) = 0 THEN NaN ELSE IF FSign(x) > 0 THEN Inf ELSE NInf
      [] x.k = "fin" -> Fin(0, 1)
      [] y.k = "fin" -> IF FSign(x) * FSign(y) > 0 THEN Inf ELSE NInf
      [] OTHER -> NaN

\* x < y; false when either is NaN.
FLt(x, y) ==
    CASE IsNaN(x) \/ IsNaN(y) -> FALSE
      [] x.k = "fin" /\ y.k = "fin" -> x.n * y.d < y.n * x.d
      [] x.k = y.k -> FALSE
      [] OTHER -> x.k = "ninf" \/ y.k = "inf"

FLe(x, y) == ~IsNaN(x) /\ ~IsNaN(y) /\ ~FLt(y, x)

\* f64::partial_cmp
partial_cmp(x, y) ==
    CASE IsNaN(x) \/ IsNaN(y) -> "None"
      [] FLt(x, y) -> "Less"
      [] FLt(y, x) -> "Greater"
      [] OTHER -> "Equal"

\* f64::max: a NaN operand is ignored.
FMax(x, y) ==
    CASE IsNaN(x) -> y
      [] IsNaN(y) -> x
      [] FLt(x, y) -> y
      [] OTHER -> x

\* The orders in which a HashMap with key set S may be iterated.
Orders(S) ==
    {o \in [1..Cardinality(S) -> S] : \A i, j \in DOMAIN o : i # j => o[i] # o[j]}

Contains(seq, x) == \E i \in DOMAIN seq : seq[i] = x

None == <<>>
Some(x) == <<x>>

\* Iterator::min_by: the first of the least elements, by the fold of the
\* standard library.
min_by(seq, Cmp(_, _)) ==
    LET f[i \in 1..Len(seq)] ==
            IF i = 1 THEN seq[1]
            ELSE IF Cmp(f[i - 1], seq[i]) = "Greater" THEN seq[i] ELSE f[i - 1]
    IN  f[Len(seq)]

\* Iterator::max_by: the last of the greatest elements.
max_by(seq, Cmp(_, _)) ==
    LET f[i \in 1..Len(seq)] ==
            IF i = 1 THEN seq[1]
            ELSE IF Cmp(f[i - 1], seq[i]) = "Greater" THEN f[i - 1] ELSE seq[i]
    IN  f[Len(seq)]

-----------------------------------------------------------------------------
(* types.rs *)

PaymentStatus == {"Pending", "Processing", "Completed", "Failed", "Cancelled"}

\* The requests a caller submits: any status, and a timestamp time() never returns.
PaymentRequest ==
    [id : PaymentIds, provider_id : {"A"}, chain : {"REI"}, amount : {100},
     recipient : {"r"}, metadata : {""}, timestamp : {9},
     status : PaymentStatus]


\* OptimizationSettings::default()
DefaultSettings ==
    [max_cost_per_transaction |-> 1000000,
     preferred_chains |-> <<"REI", "Polygon">>,
     reliability_threshold |-> Fin(95, 100),
     auto_optimization_enabled |-> TRUE,
     rebalance_frequency |-> 3600]

\* The settings a caller installs (update_settings validates nothing).
OptimizationSettings ==
    {DefaultSettings,
     [DefaultSettings EXCEPT !.max_cost_per_transaction = 20,
                             !.reliability_threshold = Fin(8, 10)],
     [DefaultSettings EXCEPT !.max_cost_per_transaction = 5,
                             !.preferred_chains = <<"REI">>,
                             !.reliability_threshold = Fin(1, 2)]}

\* The providers a caller registers.
ServiceProvider ==
    [id : {"A"}, name : {"a"}, api_endpoint : {"e"},
     supported_chains : {<<"REI">>}, cost_per_request : {0, 5, 10},
     reliability_score : {Fin(81, 100), Fin(99, 100)},
     last_ping : {0}, is_active : {TRUE}]
    \cup
    [id : {"B"}, name : {"b"}, api_endpoint : {"e"},
     supported_chains : {<<"REI", "Polygon">>}, cost_per_request : {0, 5, 10},
     reliability_score : {Fin(81, 100), Fin(99, 100)},
     last_ping : {0}, is_active : {TRUE}]

-----------------------------------------------------------------------------
(* payment_processor.rs *)

DuplicateId == "Payment ID already exists"
NotFound == "Payment not found"
InvalidState == "Cannot cancel payment that is already processing"
RetryExhausted == "Payment failed after maximum retries"

\* submit_payment; t is what time() returns.
submit_payment_keeps_status(payment, t) ==
    /\ now' = t
    /\ IF \/ payment.id \in DOMAIN pending_payments
          \/ payment.id \in DOMAIN completed_payments
       THEN /\ resp' = [op |-> "submit", arg |-> payment,
                        result |-> Err(DuplicateId)]
            /\ UNCHANGED <<processor_vars, attempts>>
       ELSE /\ pending_payments' =
                  MapInsert(pending_payments, payment.id,
                            [payment EXCEPT !.timestamp = t])
            /\ retry_counts' = MapInsert(retry_counts, payment.id, 0)
            /\ attempts' = [attempts EXCEPT ![payment.id] = 0]
            /\ resp' = [op |-> "submit", arg |-> payment,
                        result |-> Ok(payment.id)]
            /\ UNCHANGED completed_payments

submit_payment_no_archive_check(payment, t) ==
    /\ resp' = [op |-> "submit", arg |-> payment,
                result |-> IF payment.id \in DOMAIN pending_payments
                           THEN Err(DuplicateId) ELSE Ok(payment.id)]
    /\ now' = t
    /\ IF payment.id \in DOMAIN pending_payments
       THEN UNCHANGED <<processor_vars, attempts>>
       ELSE /\ pending_payments' =
                  MapInsert(pending_payments, payment.id,
                            [payment EXCEPT !.timestamp = t, !.status = "Pending"])
            /\ retry_counts' = MapInsert(retry_counts, payment.id, 0)
            /\ attempts' = [attempts EXCEPT ![payment.id] = 0]
            /\ UNCHANGED completed_payments

submit_payment(payment, t) ==
    /\ now' = t
    /\ IF \/ payment.id \in DOMAIN pending_payments
          \/ payment.id \in DOMAIN completed_payments
       THEN /\ resp' = [op |-> "submit", arg |-> payment,
                        result |-> Err(DuplicateId)]
            /\ UNCHANGED <<processor_vars, attempts>>
       ELSE /\ pending_payments' =
                  MapInsert(pending_payments, payment.id,
                            [payment EXCEPT !.timestamp = t, !.status = "Pending"])
            /\ retry_counts' = MapInsert(retry_counts, payment.id, 0)
            /\ attempts' = [attempts EXCEPT ![payment.id] = 0]
            /\ resp' = [op |-> "submit", arg |-> payment,
                        result |-> Ok(payment.id)]
            /\ UNCHANGED completed_payments

\* The simulated backend: the hash of the payment id decides.
execute_blockchain_transaction_after_retry(payment) ==
    \/ (hasher[payment.id] % 10) # 0
    \/ /\ payment.id \in DOMAIN retry_counts
       /\ retry_counts[payment.id] >= 1

execute_blockchain_transaction(payment) == (hasher[payment.id] % 10) # 0

\* handle_payment_failure, on the map process_payment left (status Processing).
handle_payment_failure_keeps_processing(pending, payment_id) ==
    LET retry_count == IF payment_id \in DOMAIN retry_counts
                       THEN retry_counts[payment_id] ELSE 0
    IN  IF retry_count < 3
        THEN /\ retry_counts' = MapInsert(retry_counts, payment_id, retry_count + 1)
             /\ pending_payments' = pending
             /\ UNCHANGED completed_payments
             /\ resp' = [op |-> "process", arg |-> payment_id, result |-> Ok(Unit)]
        ELSE /\ IF payment_id \in DOMAIN pending
                THEN /\ pending_payments' = MapRemove(pending, payment_id)
                     /\ completed_payments' =
                           MapInsert(completed_payments, payment_id,
                                     [pending[payment_id] EXCEPT !.status = "Failed"])
                     /\ retry_counts' = MapRemove(retry_counts, payment_id)
                ELSE /\ pending_payments' = pending
                     /\ UNCHANGED <<completed_payments, retry_counts>>
             /\ resp' = [op |-> "process", arg |-> payment_id,
                         result |-> Err(RetryExhausted)]

handle_payment_failure_early(pending, payment_id) ==
    LET retry_count == IF payment_id \in DOMAIN retry_counts
                       THEN retry_counts[payment_id] ELSE 0
    IN  IF retry_count < 2
        THEN /\ retry_counts' = MapInsert(retry_counts, payment_id, retry_count + 1)
             /\ pending_payments' =
                   IF payment_id \in DOMAIN pending
                   THEN [pending EXCEPT ![payment_id].status = "Pending"]
                   ELSE pending
             /\ UNCHANGED completed_payments
             /\ resp' = [op |-> "process", arg |-> payment_id, result |-> Ok(Unit)]
        ELSE /\ IF payment_id \in DOMAIN pending
                THEN /\ pending_payments' = MapRemove(pending, payment_id)
                     /\ completed_payments' =
                           MapInsert(completed_payments, payment_id,
                                     [pending[payment_id] EXCEPT !.status = "Failed"])
                     /\ retry_counts' = MapRemove(retry_counts, payment_id)
                ELSE /\ pending_payments' = pending
                     /\ UNCHANGED <<completed_payments, retry_counts>>
             /\ resp' = [op |-> "process", arg |-> payment_id,
                         result |-> Err(RetryExhausted)]

handle_payment_failure(pending, payment_id) ==
    LET retry_count == IF payment_id \in DOMAIN retry_counts
                       THEN retry_counts[payment_id] ELSE 0
    IN  IF retry_count < 3
        THEN /\ retry_counts' = MapInsert(retry_counts, payment_id, retry_count + 1)
             /\ pending_payments' =
                   IF payment_id \in DOMAIN pending
                   THEN [pending EXCEPT ![payment_id].status = "Pending"]
                   ELSE pending
             /\ UNCHANGED completed_payments
             /\ resp' = [op |-> "process", arg |-> payment_id, result |-> Ok(Unit)]
        ELSE /\ IF payment_id \in DOMAIN pending
                THEN /\ pending_payments' = MapRemove(pending, payment_id)
                     /\ completed_payments' =
                           MapInsert(completed_payments, payment_id,
                                     [pending[payment_id] EXCEPT !.status = "Failed"])
                     /\ retry_counts' = MapRemove(retry_counts, payment_id)
                ELSE /\ pending_payments' = pending
                     /\ UNCHANGED <<completed_payments, retry_counts>>
             /\ resp' = [op |-> "process", arg |-> payment_id,
                         result |-> Err(RetryExhausted)]

process_payment_keeps_retry_count(payment_id) ==
    /\ UNCHANGED now
    /\ IF payment_id \notin DOMAIN pending_payments
       THEN /\ resp' = [op |-> "process", arg |-> payment_id,
                        result |-> Err(NotFound)]
            /\ UNCHANGED <<processor_vars, attempts>>
       ELSE LET payment_clone ==
                    [pending_payments[payment_id] EXCEPT !.status = "Processing"]
                processing == MapInsert(pending_payments, payment_id, payment_clone)
                success == execute_blockchain_transaction(payment_clone)
            IN  /\ attempts' = [attempts EXCEPT ![payment_id] = @ + 1]
                /\ IF success
                   THEN /\ pending_payments' = MapRemove(processing, payment_id)
                        /\ completed_payments' =
                              MapInsert(completed_payments, payment_id,
                                        [payment_clone EXCEPT !.status = "Completed"])
                        /\ UNCHANGED retry_counts
                        /\ resp' = [op |-> "process", arg |-> payment_id,
                                    result |-> Ok(Unit)]
                   ELSE handle_payment_failure(processing, payment_id)

process_payment(payment_id) ==
    /\ UNCHANGED now
    /\ IF payment_id \notin DOMAIN pending_payments
       THEN /\ resp' = [op |-> "process", arg |-> payment_id,
                        result |-> Err(NotFound)]
            /\ UNCHANGED <<processor_vars, attempts>>
       ELSE LET payment_clone ==
                    [pending_payments[payment_id] EXCEPT !.status = "Processing"]
                processing == MapInsert(pending_payments, payment_id, payment_clone)
                success == execute_blockchain_transaction(payment_clone)
            IN  /\ attempts' = [attempts EXCEPT ![payment_id] = @ + 1]
                /\ IF success
                   THEN /\ pending_payments' = MapRemove(processing, payment_id)
                        /\ completed_payments' =
                              MapInsert(completed_payments, payment_id,
                                        [payment_clone EXCEPT !.status = "Completed"])
                        /\ retry_counts' = MapRemove(retry_counts, payment_id)
                        /\ resp' = [op |-> "process", arg |-> payment_id,
                                    result |-> Ok(Unit)]
                   ELSE handle_payment_failure(processing, payment_id)

get_payment_status(payment_id) ==
    /\ resp' = [op |-> "status", arg |-> payment_id,
                result |-> IF payment_id \in DOMAIN pending_payments
                           THEN <<pending_payments[payment_id].status>>
                           ELSE IF payment_id \in DOMAIN completed_payments
                                THEN <<completed_payments[payment_id].status>>
                                ELSE <<>>]
    /\ UNCHANGED <<processor_vars, attempts, now>>

cancel_payment_keeps_retry_count(payment_id) ==
    /\ UNCHANGED <<now, attempts, retry_counts>>
    /\ IF payment_id \in DOMAIN pending_payments
       THEN IF pending_payments[payment_id].status = "Processing"
            THEN /\ resp' = [op |-> "cancel", arg |-> payment_id,
                             result |-> Err(InvalidState)]
                 /\ UNCHANGED <<pending_payments, completed_payments>>
            ELSE /\ pending_payments' = MapRemove(pending_payments, payment_id)
                 /\ completed_payments' =
                       MapInsert(completed_payments, payment_id,
                                 [pending_payments[payment_id]
                                     EXCEPT !.status = "Cancelled"])
                 /\ resp' = [op |-> "cancel", arg |-> payment_id,
                             result |-> Ok(Unit)]
       ELSE /\ resp' = [op |-> "cancel", arg |-> payment_id,
                        result |-> Err(NotFound)]
            /\ UNCHANGED <<pending_payments, completed_payments>>

cancel_payment_from_archive(payment_id) ==
    /\ UNCHANGED <<now, attempts>>
    /\ IF payment_id \in DOMAIN pending_payments
       THEN /\ pending_payments' = MapRemove(pending_payments, payment_id)
            /\ completed_payments' =
                  MapInsert(completed_payments, payment_id,
                            [pending_payments[payment_id] EXCEPT !.status = "Cancelled"])
            /\ retry_counts' = MapRemove(retry_counts, payment_id)
            /\ resp' = [op |-> "cancel", arg |-> payment_id, result |-> Ok(Unit)]
       ELSE IF payment_id \in DOMAIN completed_payments
            THEN /\ completed_payments' =
                       [completed_payments EXCEPT ![payment_id].status = "Cancelled"]
                 /\ resp' = [op |-> "cancel", arg |-> payment_id, result |-> Ok(Unit)]
                 /\ UNCHANGED <<pending_payments, retry_counts>>
            ELSE /\ resp' = [op |-> "cancel", arg |-> payment_id,
                             result |-> Err(NotFound)]
                 /\ UNCHANGED processor_vars

cancel_payment_any_status(payment_id) ==
    /\ UNCHANGED <<now, attempts>>
    /\ IF payment_id \in DOMAIN pending_payments
       THEN /\ pending_payments' = MapRemove(pending_payments, payment_id)
            /\ completed_payments' =
                  MapInsert(completed_payments, payment_id,
                            [pending_payments[payment_id] EXCEPT !.status = "Cancelled"])
            /\ retry_counts' = MapRemove(retry_counts, payment_id)
            /\ resp' = [op |-> "cancel", arg |-> payment_id, result |-> Ok(Unit)]
       ELSE /\ resp' = [op |-> "cancel", arg |-> payment_id,
                        result |-> Err(NotFound)]
            /\ UNCHANGED processor_vars

cancel_payment(payment_id) ==
    /\ UNCHANGED <<now, attempts>>
    /\ IF payment_id \in DOMAIN pending_payments
       THEN IF pending_payments[payment_id].status = "Processing"
            THEN /\ resp' = [op |-> "cancel", arg |-> payment_id,
                             result |-> Err(InvalidState)]
                 /\ UNCHANGED processor_vars
            ELSE /\ pending_payments' = MapRemove(pending_payments, payment_id)
                 /\ completed_payments' =
                       MapInsert(completed_payments, payment_id,
                                 [pending_payments[payment_id]
                                     EXCEPT !.status = "Cancelled"])
                 /\ retry_counts' = MapRemove(retry_counts, payment_id)
                 /\ resp' = [op |-> "cancel", arg |-> payment_id,
                             result |-> Ok(Unit)]
       ELSE /\ resp' = [op |-> "cancel", arg |-> payment_id,
                        result |-> Err(NotFound)]
            /\ UNCHANGED processor_vars

-----------------------------------------------------------------------------
(* service_registry.rs *)

PerfCap == 100

AlreadyRegistered == "Provider already registered"
ProviderNotFound == "Provider not found"

register_provider_overwrites(provider) ==
    /\ UNCHANGED pushed
    /\ performance_history' = MapInsert(performance_history, provider.id, <<>>)
    /\ providers' = MapInsert(providers, provider.id, provider)
    /\ resp' = [op |-> "register", arg |-> provider,
                result |-> IF provider.id \in DOMAIN providers
                           THEN Err(AlreadyRegistered) ELSE Ok(Unit)]

register_provider(provider) ==
    /\ UNCHANGED pushed
    /\ IF provider.id \in DOMAIN providers
       THEN /\ resp' = [op |-> "register", arg |-> provider,
                        result |-> Err(AlreadyRegistered)]
            /\ UNCHANGED registry_vars
       ELSE /\ performance_history' = MapInsert(performance_history, provider.id, <<>>)
            /\ providers' = MapInsert(providers, provider.id, provider)
            /\ resp' = [op |-> "register", arg |-> provider, result |-> Ok(Unit)]

update_provider_performance_no_cap(provider_id, response_time) ==
    /\ resp' = [op |-> "performance", arg |-> provider_id, result |-> Ok(Unit)]
    /\ UNCHANGED providers
    /\ IF provider_id \in DOMAIN performance_history
       THEN /\ performance_history' =
                  [performance_history EXCEPT ![provider_id] = Append(@, response_time)]
            /\ pushed' = [pushed EXCEPT ![provider_id] = @ + 1]
       ELSE UNCHANGED <<performance_history, pushed>>

update_provider_performance(provider_id, response_time) ==
    /\ resp' = [op |-> "performance", arg |-> provider_id, result |-> Ok(Unit)]
    /\ UNCHANGED providers
    /\ IF provider_id \in DOMAIN performance_history
       THEN LET history == Append(performance_history[provider_id], response_time)
            IN  /\ performance_history' =
                      [performance_history EXCEPT ![provider_id] =
                          IF Len(history) > PerfCap THEN Tail(history) ELSE history]
                /\ pushed' = [pushed EXCEPT ![provider_id] = @ + 1]
       ELSE UNCHANGED <<performance_history, pushed>>

deactivate_provider_toggles(provider_id) ==
    /\ UNCHANGED <<performance_history, pushed>>
    /\ IF provider_id \in DOMAIN providers
       THEN /\ providers' = [providers EXCEPT ![provider_id].is_active = ~@]
            /\ resp' = [op |-> "deactivate", arg |-> provider_id, result |-> Ok(Unit)]
       ELSE /\ resp' = [op |-> "deactivate", arg |-> provider_id,
                        result |-> Err(ProviderNotFound)]
            /\ UNCHANGED providers

deactivate_provider(provider_id) ==
    /\ UNCHANGED <<performance_history, pushed>>
    /\ IF provider_id \in DOMAIN providers
       THEN /\ providers' = [providers EXCEPT ![provider_id].is_active = FALSE]
            /\ resp' = [op |-> "deactivate", arg |-> provider_id, result |-> Ok(Unit)]
       ELSE /\ resp' = [op |-> "deactivate", arg |-> provider_id,
                        result |-> Err(ProviderNotFound)]
            /\ UNCHANGED providers

\* The sum of a Vec<f64>, as Iterator::sum folds it.
FSum(seq) ==
    LET f[i \in 0..Len(seq)] == IF i = 0 THEN F64(0) ELSE FAdd(f[i - 1], seq[i])
    IN  f[Len(seq)]

calculate_provider_score(provider) ==
    LET cost_score == FDiv(F64(1), FAdd(F64(provider.cost_per_request), F64(1)))
        reliability_score == provider.reliability_score
        performance_score ==
            IF provider.id \in DOMAIN performance_history
            THEN LET history == performance_history[provider.id]
                 IN  IF history = <<>>
                     THEN Fin(1, 2)
                     ELSE LET avg_response_time ==
                                  FDiv(FSum(history), F64(Len(history)))
                          IN  FDiv(F64(1), FAdd(avg_response_time, F64(1)))
            ELSE Fin(1, 2)
    IN  FAdd(FAdd(FMul(cost_score, Fin(3, 10)), FMul(reliability_score, Fin(4, 10))),
             FMul(performance_score, Fin(3, 10)))

\* The filter of get_best_provider.
IsBestCandidate(p, chain, max_cost) ==
    /\ p.is_active
    /\ Contains(p.supported_chains, chain)
    /\ p.cost_per_request <= max_cost
    /\ FLe(Fin(8, 10), p.reliability_score)

\* get_best_provider; order is the order providers.values() yields the ids in.
get_best_provider_max_by(chain, max_cost, order) ==
    LET listed == [i \in DOMAIN order |-> providers[order[i]]]
        found == SelectSeq(listed, LAMBDA p : IsBestCandidate(p, chain, max_cost))
        Cmp(a, b) ==
            LET c == partial_cmp(calculate_provider_score(a),
                                 calculate_provider_score(b))
            IN  IF c = "None" THEN "Equal" ELSE c
    IN  IF found = <<>> THEN None ELSE Some(max_by(found, Cmp))

get_best_provider(chain, max_cost, order) ==
    LET listed == [i \in DOMAIN order |-> providers[order[i]]]
        found == SelectSeq(listed, LAMBDA p : IsBestCandidate(p, chain, max_cost))
        Cmp(a, b) ==
            LET c == partial_cmp(calculate_provider_score(a),
                                 calculate_provider_score(b))
            IN  IF c = "None" THEN "Equal" ELSE c
    IN  IF found = <<>> THEN None ELSE Some(min_by(found, Cmp))

-----------------------------------------------------------------------------
(* cost_optimizer.rs *)

UsageCap == 1000

calculate_optimization_score(provider, chain, amount) ==
    LET cost_score == FDiv(F64(provider.cost_per_request), F64(amount))
        reliability_score == FSub(F64(1), provider.reliability_score)
        historical_score ==
            IF chain \in DOMAIN chain_costs
            THEN FSub(F64(1), chain_costs[chain].success_rate)
            ELSE Fin(1, 2)
    IN  FAdd(FAdd(FMul(cost_score, Fin(4, 10)), FMul(reliability_score, Fin(3, 10))),
             FMul(historical_score, Fin(3, 10)))

\* The filter of optimize_payment_route.
IsCandidate(p, chain) ==
    /\ p.is_active
    /\ Contains(p.supported_chains, chain)
    /\ p.cost_per_request <= settings.max_cost_per_transaction
    /\ FLe(settings.reliability_threshold, p.reliability_score)

\* optimize_payment_route; order is the order registry.list_providers()
\* yields the provider ids in.
optimize_payment_route_ignores_active(chain, amount, order) ==
    LET listed == [i \in DOMAIN order |-> providers[order[i]]]
        found == SelectSeq(listed, LAMBDA p :
                    /\ Contains(p.supported_chains, chain)
                    /\ p.cost_per_request <= settings.max_cost_per_transaction
                    /\ FLe(settings.reliability_threshold, p.reliability_score))
        Cmp(a, b) ==
            LET c == partial_cmp(calculate_optimization_score(a, chain, amount),
                                 calculate_optimization_score(b, chain, amount))
            IN  IF c = "None" THEN "Equal" ELSE c
    IN  IF found = <<>> THEN None ELSE Some(min_by(found, Cmp).id)

optimize_payment_route(chain, amount, order) ==
    LET listed == [i \in DOMAIN order |-> providers[order[i]]]
        found == SelectSeq(listed, LAMBDA p : IsCandidate(p, chain))
        Cmp(a, b) ==
            LET c == partial_cmp(calculate_optimization_score(a, chain, amount),
                                 calculate_optimization_score(b, chain, amount))
            IN  IF c = "None" THEN "Equal" ELSE c
    IN  IF found = <<>> THEN None ELSE Some(min_by(found, Cmp).id)

\* update_chain_costs: the chain_costs map after the update.
update_chain_costs_wrong_weight(chain, cost, success, current_time) ==
    LET chain_data ==
            IF chain \in DOMAIN chain_costs
            THEN chain_costs[chain]
            ELSE [average_cost |-> F64(cost), volume |-> 0,
                  success_rate |-> IF success THEN F64(1) ELSE F64(0),
                  last_updated |-> current_time]
        volume == chain_data.volume + 1
        average_cost ==
            FDiv(FAdd(FMul(chain_data.average_cost, F64(volume)), F64(cost)),
                 F64(volume))
        success_value == IF success THEN F64(1) ELSE F64(0)
        success_rate ==
            FDiv(FAdd(FMul(chain_data.success_rate, F64(volume - 1)), success_value),
                 F64(volume))
    IN  MapInsert(chain_costs, chain,
                  [average_cost |-> average_cost, volume |-> volume,
                   success_rate |-> success_rate, last_updated |-> current_time])

update_chain_costs(chain, cost, success, current_time) ==
    LET chain_data ==
            IF chain \in DOMAIN chain_costs
            THEN chain_costs[chain]
            ELSE [average_cost |-> F64(cost), volume |-> 0,
                  success_rate |-> IF success THEN F64(1) ELSE F64(0),
                  last_updated |-> current_time]
        volume == chain_data.volume + 1
        average_cost ==
            FDiv(FAdd(FMul(chain_data.average_cost, F64(volume - 1)), F64(cost)),
                 F64(volume))
        success_value == IF success THEN F64(1) ELSE F64(0)
        success_rate ==
            FDiv(FAdd(FMul(chain_data.success_rate, F64(volume - 1)), success_value),
                 F64(volume))
    IN  MapInsert(chain_costs, chain,
                  [average_cost |-> average_cost, volume |-> volume,
                   success_rate |-> success_rate, last_updated |-> current_time])

\* record_usage; t is what time() returns.
record_usage(chain, provider_id, cost, success, response_time, t) ==
    LET record == [timestamp |-> t, chain |-> chain, provider_id |-> provider_id,
                   cost |-> cost, success |-> success,
                   response_time |-> response_time]
        history == Append(usage_history, record)
    IN  /\ now' = t
        /\ chain_costs' = update_chain_costs(chain, cost, success, t)
        /\ usage_history' = IF Len(history) > UsageCap THEN Tail(history) ELSE history
        /\ UNCHANGED settings
        /\ recorded' = [recorded EXCEPT ![chain] =
                           [n |-> @.n + 1, cost |-> @.cost + cost,
                            succ |-> @.succ + (IF success THEN 1 ELSE 0)]]
        /\ resp' = [op |-> "record_usage", arg |-> record, result |-> Ok(Unit)]

\* get_usage_metrics; t is what time() returns.  No stored timestamp exceeds
\* t (time() never goes back), so the unsigned t - r.timestamp does not wrap.
get_usage_metrics_strict_window(time_window, t) ==
    LET recent_records ==
            SelectSeq(usage_history, LAMBDA r : t - r.timestamp < time_window)
        total_requests == Len(recent_records)
        successful_payments == Len(SelectSeq(recent_records, LAMBDA r : r.success))
        failed_payments == total_requests - successful_payments
        cost_sum[i \in 0..total_requests] ==
            IF i = 0 THEN 0 ELSE cost_sum[i - 1] + recent_records[i].cost
        time_sum[i \in 0..total_requests] ==
            IF i = 0 THEN F64(0)
            ELSE FAdd(time_sum[i - 1], recent_records[i].response_time)
        total_volume == cost_sum[total_requests]
    IN  [total_requests |-> total_requests,
         successful_payments |-> successful_payments,
         failed_payments |-> failed_payments,
         total_volume |-> total_volume,
         average_response_time |->
            IF recent_records # <<>>
            THEN FDiv(time_sum[total_requests], F64(total_requests))
            ELSE F64(0),
         cost_efficiency |->
            IF total_requests > 0
            THEN FMul(FDiv(F64(successful_payments), F64(total_volume)), F64(1000000))
            ELSE F64(0)]

get_usage_metrics(time_window, t) ==
    LET recent_records ==
            SelectSeq(usage_history, LAMBDA r : t - r.timestamp <= time_window)
        total_requests == Len(recent_records)
        successful_payments == Len(SelectSeq(recent_records, LAMBDA r : r.success))
        failed_payments == total_requests - successful_payments
        cost_sum[i \in 0..total_requests] ==
            IF i = 0 THEN 0 ELSE cost_sum[i - 1] + recent_records[i].cost
        time_sum[i \in 0..total_requests] ==
            IF i = 0 THEN F64(0)
            ELSE FAdd(time_sum[i - 1], recent_records[i].response_time)
        total_volume == cost_sum[total_requests]
    IN  [total_requests |-> total_requests,
         successful_payments |-> successful_payments,
         failed_payments |-> failed_payments,
         total_volume |-> total_volume,
         average_response_time |->
            IF recent_records # <<>>
            THEN FDiv(time_sum[total_requests], F64(total_requests))
            ELSE F64(0),
         cost_efficiency |->
            IF total_requests > 0
            THEN FMul(FDiv(F64(successful_payments), F64(total_volume)), F64(1000000))
            ELSE F64(0)]

update_settings_resets_statistics(new_settings) ==
    /\ settings' = new_settings
    /\ usage_history' = <<>>
    /\ chain_costs' = EmptyMap
    /\ UNCHANGED <<recorded, now>>
    /\ resp' = [op |-> "update_settings", arg |-> new_settings, result |-> Ok(Unit)]

update_settings(new_settings) ==
    /\ settings' = new_settings
    /\ UNCHANGED <<usage_history, chain_costs, recorded, now>>
    /\ resp' = [op |-> "update_settings", arg |-> new_settings, result |-> Ok(Unit)]

\* find_alternative_chain; order is the iteration order of chain_costs.
find_alternative_chain(problematic_chain, order) ==
    LET others == SelectSeq(order, LAMBDA c : c # problematic_chain)
        Cmp(a, b) == partial_cmp(chain_costs[a].success_rate,
                                 chain_costs[b].success_rate)
    IN  IF others = <<>> THEN "Polygon" ELSE max_by(others, Cmp)

calculate_potential_savings(chain, order) ==
    IF chain \in DOMAIN chain_costs
    THEN LET chain_data == chain_costs[chain]
             current_inefficiency ==
                 FMul(FSub(F64(1), chain_data.success_rate), chain_data.average_cost)
             efficiency(c) ==
                 FMul(chain_costs[c].success_rate,
                      FDiv(F64(1), chain_costs[c].average_cost))
             fold[i \in 0..Len(order)] ==
                 IF i = 0 THEN F64(0) ELSE FMax(fold[i - 1], efficiency(order[i]))
         IN  FMul(current_inefficiency, fold[Len(order)])
    ELSE F64(0)

\* suggest_chain_rebalancing; order is the iteration order of chain_costs.
suggest_chain_rebalancing(order) ==
    LET low == SelectSeq(settings.preferred_chains, LAMBDA c :
                  /\ c \in DOMAIN chain_costs
                  /\ FLt(chain_costs[c].success_rate, settings.reliability_threshold))
    IN  [i \in 1..Len(low) |->
            [from_chain |-> low[i],
             to_chain |-> find_alternative_chain(low[i], order),
             reason |-> "Low success rate",
             potential_savings |-> calculate_potential_savings(low[i], order)]]

-----------------------------------------------------------------------------
(* The state after construction, and the payment processor's specification. *)
(* In the specifications of one component every call comes from the        *)
(* controller, which init put on the allow-list: is_authorized passes.     *)

NoCall == [op |-> "none", arg |-> "", result |-> Ok(Unit)]

Init ==
    /\ pending_payments = EmptyMap
    /\ completed_payments = EmptyMap
    /\ retry_counts = EmptyMap
    /\ providers = EmptyMap
    /\ performance_history = EmptyMap
    /\ settings = DefaultSettings
    /\ usage_history = <<>>
    /\ chain_costs = EmptyMap
    /\ authorized_principals = <<Controller>>
    /\ caller = Controller
    /\ now = 0
    /\ hasher \in [PaymentIds -> HashSamples]
    /\ resp = NoCall
    /\ attempts = [p \in PaymentIds |-> 0]
    /\ recorded = [c \in AllChains |-> [n |-> 0, cost |-> 0, succ |-> 0]]
    /\ pushed = [p \in ProviderIds |-> 0]

others_unchanged_by_processor ==
    UNCHANGED <<registry_vars, optimizer_vars, hasher, recorded, pushed,
                authorized_principals, caller>>

SubmitPayment ==
    /\ \E payment \in PaymentRequest, t \in now..MaxTime :
          submit_payment(payment, t)
    /\ others_unchanged_by_processor

ProcessPayment ==
    /\ \E id \in PaymentIds : process_payment(id)
    /\ others_unchanged_by_processor

CancelPayment ==
    /\ \E id \in PaymentIds : cancel_payment(id)
    /\ others_unchanged_by_processor

GetPaymentStatus ==
    /\ \E id \in PaymentIds : get_payment_status(id)
    /\ others_unchanged_by_processor

Next ==
    \/ SubmitPayment
    \/ ProcessPayment
    \/ CancelPayment
    \/ GetPaymentStatus

Spec == Init /\ [][Next]_vars

\* The registry and the optimizer never read the hasher: their
\* specifications start from one of Init's states.
InitServices == Init /\ hasher = [p \in PaymentIds |-> 7]

-----------------------------------------------------------------------------
(* Route selection: the registry, the settings and the chain statistics    *)
(* under optimize_payment_route.                                           *)

others_unchanged_by_registry ==
    UNCHANGED <<processor_vars, attempts, hasher, optimizer_vars, recorded, now,
                authorized_principals, caller>>

others_unchanged_by_optimizer ==
    UNCHANGED <<processor_vars, attempts, hasher, registry_vars, pushed,
                authorized_principals, caller>>

Total == recorded["REI"].n + recorded["Polygon"].n + recorded["ETH"].n

RegisterProvider ==
    /\ \E provider \in ServiceProvider : register_provider(provider)
    /\ others_unchanged_by_registry

DeactivateProvider ==
    /\ \E id \in ProviderIds : deactivate_provider(id)
    /\ others_unchanged_by_registry

UpdateSettings ==
    /\ \E new_settings \in OptimizationSettings : update_settings(new_settings)
    /\ others_unchanged_by_optimizer

RouteRecordUsage ==
    /\ Total < MaxRouteUsage
    /\ \E chain \in Chains, success \in BOOLEAN :
          record_usage(chain, "A", 4, success, F64(2), now)
    /\ others_unchanged_by_optimizer

OptimizePaymentRoute ==
    /\ \E chain \in Chains, amount \in Amounts, order \in Orders(DOMAIN providers) :
          resp' = [op |-> "optimize", arg |-> [chain |-> chain, amount |-> amount],
                   result |-> optimize_payment_route(chain, amount, order)]
    /\ UNCHANGED <<optimizer_vars, recorded, now>>
    /\ others_unchanged_by_optimizer

NextRoute ==
    \/ RegisterProvider
    \/ DeactivateProvider
    \/ UpdateSettings
    \/ RouteRecordUsage
    \/ OptimizePaymentRoute

SpecRoute == InitServices /\ [][NextRoute]_vars

-----------------------------------------------------------------------------
(* Usage metrics: record_usage and get_usage_metrics as time passes.       *)

RecordUsage ==
    /\ Total < MaxUsage
    /\ \E chain \in Chains, cost \in {0, 4}, success \in BOOLEAN, t \in now..MaxTime :
          record_usage(chain, "A", cost, success, F64(2), t)
    /\ others_unchanged_by_optimizer

GetUsageMetrics ==
    /\ \E time_window \in Windows, t \in now..MaxTime :
          /\ resp' = [op |-> "metrics", arg |-> time_window,
                      result |-> get_usage_metrics(time_window, t)]
          /\ now' = t
    /\ UNCHANGED <<optimizer_vars, recorded>>
    /\ others_unchanged_by_optimizer

NextMetrics ==
    \/ RecordUsage
    \/ GetUsageMetrics

SpecMetrics == InitServices /\ [][NextMetrics]_vars

-----------------------------------------------------------------------------
(* Rebalancing: record_usage, update_settings, suggest_chain_rebalancing.  *)

RebalanceRecordUsage ==
    /\ Total < MaxUsage
    /\ \E chain \in AllChains, cost \in {0, 4}, success \in BOOLEAN :
          record_usage(chain, "A", cost, success, F64(2), now)
    /\ others_unchanged_by_optimizer

SuggestChainRebalancing ==
    /\ \E order \in Orders(DOMAIN chain_costs) :
          resp' = [op |-> "rebalance", arg |-> "",
                   result |-> suggest_chain_rebalancing(order)]
    /\ UNCHANGED <<optimizer_vars, recorded, now>>
    /\ others_unchanged_by_optimizer

NextRebalance ==
    \/ RebalanceRecordUsage
    \/ UpdateSettings
    \/ SuggestChainRebalancing

SpecRebalance == InitServices /\ [][NextRebalance]_vars

-----------------------------------------------------------------------------
(* The ring buffers at their caps.  A driver registers provider A, reports  *)
(* RingPushes response times (the k-th is k) and then RingRecords usage     *)
(* records, one per time unit.  Up to the cap the k-th usage record is      *)
(* RingInput(k); a run may leave that script, and then ends after MaxUsage  *)
(* records.  Past the cap every input is tried.  The two histories are      *)
(* disjoint state, so the driver fills one after the other.                 *)

RingProvider ==
    [id |-> "A", name |-> "a", api_endpoint |-> "e", supported_chains |-> <<"REI">>,
     cost_per_request |-> 5, reliability_score |-> Fin(99, 100), last_ping |-> 0,
     is_active |-> TRUE]

RingInput(k) ==
    [chain |-> IF k % 3 = 0 THEN "Polygon" ELSE "REI",
     cost |-> (k * k) % 5,
     success |-> k % 4 # 1]

AnyInput == [chain : Chains, cost : {0, 4}, success : BOOLEAN]

OnScript ==
    \A i \in DOMAIN usage_history :
        /\ usage_history[i].chain = RingInput(i).chain
        /\ usage_history[i].cost = RingInput(i).cost
        /\ usage_history[i].success = RingInput(i).success

RingInputs(k) ==
    IF k > UsageCap
    THEN AnyInput
    ELSE (IF OnScript THEN {RingInput(k)} ELSE {})
            \cup (IF k <= MaxUsage THEN AnyInput ELSE {})

RingRegister ==
    /\ pushed["A"] = 0
    /\ register_provider(RingProvider)
    /\ others_unchanged_by_registry

RingPerformance ==
    /\ usage_history = <<>>
    /\ pushed["A"] < RingPushes
    /\ \E id \in ProviderIds :
          update_provider_performance(id, F64(pushed["A"] + 1))
    /\ others_unchanged_by_registry

RingRecordUsage ==
    /\ pushed["A"] = RingPushes
    /\ Total < RingRecords
    /\ \E input \in RingInputs(Total + 1) :
          record_usage(input.chain, "A", input.cost, input.success, F64(2), now + 1)
    /\ others_unchanged_by_optimizer

NextRing ==
    \/ RingRegister
    \/ RingPerformance
    \/ RingRecordUsage

SpecRing == InitServices /\ [][NextRing]_vars

-----------------------------------------------------------------------------
(* The processor's contract as a function of an arbitrary stored state:    *)
(* cancel_payment applied to every pending/archived combination of the     *)
(* payment ids, the statuses a stored pending payment takes inside and     *)
(* between process_payment calls (Pending, Processing) included.           *)

StoredPayment(id, st) ==
    [id |-> id, provider_id |-> "A", chain |-> "REI", amount |-> 100,
     recipient |-> "r", metadata |-> "", timestamp |-> 0, status |-> st]

InitCancel ==
    /\ \E P \in SUBSET PaymentIds :
         \E A \in SUBSET (PaymentIds \ P) :
            /\ \E st \in [P -> {"Pending", "Processing"}] :
                  pending_payments = [id \in P |-> StoredPayment(id, st[id])]
            /\ \E st \in [A -> {"Completed", "Failed", "Cancelled"}] :
                  completed_payments = [id \in A |-> StoredPayment(id, st[id])]
            /\ retry_counts \in [P -> 0..3]
    /\ providers = EmptyMap
    /\ performance_history = EmptyMap
    /\ settings = DefaultSettings
    /\ usage_history = <<>>
    /\ chain_costs = EmptyMap
    /\ authorized_principals = <<Controller>>
    /\ caller = Controller
    /\ now = 0
    /\ hasher = [p \in PaymentIds |-> 7]
    /\ resp = NoCall
    /\ attempts = [p \in PaymentIds |-> 0]
    /\ recorded = [c \in AllChains |-> [n |-> 0, cost |-> 0, succ |-> 0]]
    /\ pushed = [p \in ProviderIds |-> 0]

NextCancel == CancelPayment

SpecCancel == InitCancel /\ [][NextCancel]_vars

-----------------------------------------------------------------------------
(* Claims about the payment processor. *)

AlwaysFails(id) == ~execute_blockchain_transaction([id |-> id])

\* C1: a payment whose backend fails on every attempt is still Pending, with
\* retry count 1, 2, 3, after its 1st, 2nd, 3rd process() call, and becomes
\* Failed (archived) on exactly the 4th: never earlier, never later.
C1_RetryBound ==
    \A id \in PaymentIds :
        AlwaysFails(id) =>
            /\ attempts[id] \in 0..4
            /\ id \in DOMAIN pending_payments =>
                  /\ pending_payments[id].status = "Pending"
                  /\ id \in DOMAIN retry_counts
                  /\ retry_counts[id] = attempts[id]
                  /\ attempts[id] <= 3
            /\ (id \in DOMAIN completed_payments
                  /\ completed_payments[id].status = "Failed") => attempts[id] = 4
            /\ attempts[id] = 4 =>
                  /\ id \in DOMAIN completed_payments
                  /\ completed_payments[id].status = "Failed"

C1_Witness ==
    \E id \in PaymentIds :
        /\ AlwaysFails(id)
        /\ id \in DOMAIN completed_payments
        /\ completed_payments[id].status = "Failed"
        /\ attempts[id] = 4

PostCompleted(id) ==
    /\ id \notin DOMAIN pending_payments'
    /\ id \in DOMAIN completed_payments'
    /\ completed_payments'[id] = [pending_payments[id] EXCEPT !.status = "Completed"]
    /\ id \notin DOMAIN retry_counts'
    /\ resp'.result = Ok(Unit)

PostRetry(id, r) ==
    /\ id \in DOMAIN pending_payments'
    /\ pending_payments'[id] = pending_payments[id]
    /\ id \notin DOMAIN completed_payments'
    /\ id \in DOMAIN retry_counts'
    /\ retry_counts'[id] = r + 1
    /\ resp'.result = Ok(Unit)

PostFailed(id) ==
    /\ id \notin DOMAIN pending_payments'
    /\ id \in DOMAIN completed_payments'
    /\ completed_payments'[id] = [pending_payments[id] EXCEPT !.status = "Failed"]
    /\ id \notin DOMAIN retry_counts'
    /\ resp'.result = Err(RetryExhausted)

\* C2: one process(id) call on a Pending payment with retry count r ends in
\* exactly one of: Completed and archived (backend success), Pending again with
\* retry count r+1 (failure, r < 3), Failed and archived (failure, r = 3).
C2_ProcessOutcome ==
    [][ resp'.op = "process" =>
          LET id == resp'.arg
          IN  (id \in DOMAIN pending_payments
                 /\ pending_payments[id].status = "Pending") =>
                LET r == retry_counts[id]
                    success == execute_blockchain_transaction(pending_payments[id])
                IN  /\ success => PostCompleted(id)
                    /\ (~success /\ r < 3) => PostRetry(id, r)
                    /\ (~success /\ r = 3) => PostFailed(id)
                    /\ PostCompleted(id) \/ PostRetry(id, r) \/ PostFailed(id)
                    /\ ~(PostCompleted(id) /\ PostRetry(id, r))
                    /\ ~(PostCompleted(id) /\ PostFailed(id))
                    /\ ~(PostRetry(id, r) /\ PostFailed(id)) ]_vars

C2_Witness ==
    /\ resp.op = "process"
    /\ resp.result = Err(RetryExhausted)
    /\ resp.arg \in DOMAIN completed_payments
    /\ completed_payments[resp.arg].status = "Failed"
    /\ \E other \in DOMAIN completed_payments :
          completed_payments[other].status = "Completed"

\* C3: submit fails with DuplicateId and changes nothing when the id is in
\* the pending set or the archive; otherwise it returns the id and stores the
\* payment as Pending with retry counter 0, whatever status the caller sent.
C3_Submit ==
    [][ resp'.op = "submit" =>
          LET payment == resp'.arg
          IN  IF \/ payment.id \in DOMAIN pending_payments
                 \/ payment.id \in DOMAIN completed_payments
              THEN /\ resp'.result = Err(DuplicateId)
                   /\ UNCHANGED processor_vars
              ELSE /\ resp'.result = Ok(payment.id)
                   /\ payment.id \in DOMAIN pending_payments'
                   /\ pending_payments'[payment.id] =
                         [payment EXCEPT !.status = "Pending", !.timestamp = now']
                   /\ payment.id \notin DOMAIN completed_payments'
                   /\ payment.id \in DOMAIN retry_counts'
                   /\ retry_counts'[payment.id] = 0 ]_vars

C3_Witness ==
    /\ resp.op = "submit"
    /\ resp.result = Ok(resp.arg.id)
    /\ resp.arg.status = "Completed"
    /\ pending_payments[resp.arg.id].status = "Pending"
    /\ pending_payments[resp.arg.id].timestamp # resp.arg.timestamp
    /\ retry_counts[resp.arg.id] = 0
    /\ completed_payments # EmptyMap

StoredStatuses(id) ==
    {pending_payments[x].status : x \in {id} \cap DOMAIN pending_payments}
        \cup {completed_payments[x].status : x \in {id} \cap DOMAIN completed_payments}

\* C4: no payment id is in the pending set and the archive at once, so
\* getStatus(id) has a single answer.
C4_Disjoint ==
    /\ (DOMAIN pending_payments) \cap (DOMAIN completed_payments) = {}
    /\ resp.op = "status" =>
          /\ Cardinality(StoredStatuses(resp.arg)) <= 1
          /\ \A st \in StoredStatuses(resp.arg) : resp.result = <<st>>
          /\ StoredStatuses(resp.arg) = {} => resp.result = <<>>

C4_Witness ==
    /\ resp.op = "status"
    /\ resp.arg \in DOMAIN completed_payments
    /\ resp.result = <<"Cancelled">>
    /\ pending_payments # EmptyMap

\* C5: cancel succeeds only on a stored payment with status Pending (then
\* Cancelled, archived, retry counter removed); InvalidState and no change
\* when the status is Processing; NotFound and no change when the id is in
\* neither set.
C5_Cancel ==
    [][ resp'.op = "cancel" =>
          LET id == resp'.arg
          IN  /\ resp'.result.ok =>
                    /\ id \in DOMAIN pending_payments
                    /\ pending_payments[id].status = "Pending"
                    /\ id \notin DOMAIN pending_payments'
                    /\ id \in DOMAIN completed_payments'
                    /\ completed_payments'[id] =
                          [pending_payments[id] EXCEPT !.status = "Cancelled"]
                    /\ id \notin DOMAIN retry_counts'
              /\ (id \in DOMAIN pending_payments
                    /\ pending_payments[id].status = "Pending") => resp'.result.ok
              /\ (id \in DOMAIN pending_payments
                    /\ pending_payments[id].status = "Processing") =>
                    /\ resp'.result = Err(InvalidState)
                    /\ UNCHANGED processor_vars
              /\ (id \notin DOMAIN pending_payments
                    /\ id \notin DOMAIN completed_payments) =>
                    /\ resp'.result = Err(NotFound)
                    /\ UNCHANGED processor_vars ]_vars

C5_Witness ==
    /\ resp.op = "cancel"
    /\ resp.result = Err(InvalidState)
    /\ resp.arg \in DOMAIN pending_payments
    /\ pending_payments[resp.arg].status = "Processing"
    /\ \E id \in DOMAIN completed_payments :
          completed_payments[id].status = "Cancelled"
-----------------------------------------------------------------------------
(* Claims about the optimizer and the registry. *)

\* The score and the candidates as the claim states them.
RouteScore(p, chain, amount) ==
    LET chainSuccessRate == IF chain \in DOMAIN chain_costs
                            THEN chain_costs[chain].success_rate
                            ELSE Fin(1, 2)
    IN  FAdd(FAdd(FMul(Fin(4, 10), FDiv(F64(p.cost_per_request), F64(amount))),
                  FMul(Fin(3, 10), FSub(F64(1), p.reliability_score))),
             FMul(Fin(3, 10), FSub(F64(1), chainSuccessRate)))

RouteCandidates(chain) ==
    {id \in DOMAIN providers :
        /\ providers[id].is_active
        /\ \E i \in DOMAIN providers[id].supported_chains :
              providers[id].supported_chains[i] = chain
        /\ providers[id].cost_per_request <= settings.max_cost_per_transaction
        /\ FLe(settings.reliability_threshold, providers[id].reliability_score)}

RouteExample ==
    /\ DOMAIN providers = {"A", "B"}
    /\ providers["A"].is_active /\ providers["B"].is_active
    /\ providers["A"].cost_per_request = 10
    /\ providers["A"].reliability_score = Fin(99, 100)
    /\ providers["B"].cost_per_request = 5
    /\ providers["B"].reliability_score = Fin(81, 100)
    /\ settings.reliability_threshold = Fin(8, 10)
    /\ settings.max_cost_per_transaction = 20
    /\ resp.arg.chain \notin DOMAIN chain_costs
    /\ resp.arg.chain = "REI"
    /\ resp.arg.amount = 100

\* C6: selectRoute returns no route exactly when no provider is active,
\* supports the chain, costs at most maxCostPerTransaction and is at least
\* reliabilityThreshold reliable; otherwise it returns such a provider, and no
\* candidate has a lower score.  In the example the result is A (0.193 < 0.227).
C6_SelectRoute ==
    resp.op = "optimize" =>
        LET chain == resp.arg.chain
            amount == resp.arg.amount
            candidates == RouteCandidates(chain)
        IN  /\ (resp.result = None) <=> (candidates = {})
            /\ candidates # {} =>
                  \E id \in candidates :
                     /\ resp.result = Some(id)
                     /\ \A c \in candidates :
                           ~FLt(RouteScore(providers[c], chain, amount),
                                RouteScore(providers[id], chain, amount))
            /\ RouteExample =>
                  /\ RouteScore(providers["A"], chain, amount) = Fin(193, 1000)
                  /\ RouteScore(providers["B"], chain, amount) = Fin(227, 1000)
                  /\ resp.result = Some("A")

C6_Witness ==
    /\ resp.op = "optimize"
    /\ RouteExample
    /\ resp.result = Some("A")

Min(a, b) == IF a < b THEN a ELSE b

\* C7: the usage history holds the min(k, 1000) most recent of the k records
\* recorded, in insertion order (the k-th record carries timestamp k), and a
\* provider's performance history the min(k, 100) most recent response times
\* (the k-th response time is k).
C7_RingBuffers ==
    /\ Len(usage_history) = Min(Total, UsageCap)
    /\ \A i \in DOMAIN usage_history :
          LET k == Total - Len(usage_history) + i
          IN  usage_history[i].timestamp = k
    /\ \A p \in DOMAIN performance_history :
          /\ Len(performance_history[p]) = Min(pushed[p], PerfCap)
          /\ \A i \in DOMAIN performance_history[p] :
                performance_history[p][i] =
                    F64(pushed[p] - Len(performance_history[p]) + i)

C7_Witness ==
    /\ Total = UsageCap + 1
    /\ Len(usage_history) = UsageCap
    /\ usage_history[1].timestamp = 2
    /\ usage_history[UsageCap].timestamp = UsageCap + 1
    /\ pushed["A"] > PerfCap
    /\ Len(performance_history["A"]) = PerfCap
    /\ performance_history["A"][1] = F64(pushed["A"] - PerfCap + 1)
    /\ performance_history["A"][PerfCap] = F64(pushed["A"])

\* C8: after N >= 1 recordUsage calls for a chain its statistics hold attempt
\* count N, mean cost (sum of the N costs)/N and success rate successes/N, also
\* once the usage ring buffer has evicted records.
C8_RunningMean ==
    \A c \in AllChains :
        /\ c \in DOMAIN chain_costs <=> recorded[c].n >= 1
        /\ c \in DOMAIN chain_costs =>
              /\ chain_costs[c].volume = recorded[c].n
              /\ chain_costs[c].average_cost = Fin(recorded[c].cost, recorded[c].n)
              /\ chain_costs[c].success_rate = Fin(recorded[c].succ, recorded[c].n)

C8_Witness ==
    /\ Total > UsageCap
    /\ Len(usage_history) < Total
    /\ DOMAIN chain_costs = Chains
    /\ \A c \in Chains :
          /\ chain_costs[c].average_cost.d > 1
          /\ chain_costs[c].success_rate.d > 1

RECURSIVE SumCosts(_)
SumCosts(S) ==
    IF S = {} THEN 0
    ELSE LET i == CHOOSE x \in S : TRUE
         IN  usage_history[i].cost + SumCosts(S \ {i})

\* C9: usageMetrics(window) counts exactly the stored records with timestamp
\* in [now - window, now], the lower end saturating at 0; successes + failures
\* = totalRequests, totalVolume is the sum of their costs, and costEfficiency
\* is exactly 0 when totalRequests = 0.
C9_UsageMetrics ==
    /\ \A i \in DOMAIN usage_history : usage_history[i].timestamp <= now
    /\ resp.op = "metrics" =>
          LET window == resp.arg
              metrics == resp.result
              from == IF now >= window THEN now - window ELSE 0
              inside == {i \in DOMAIN usage_history :
                            /\ from <= usage_history[i].timestamp
                            /\ usage_history[i].timestamp <= now}
          IN  /\ metrics.total_requests = Cardinality(inside)
              /\ metrics.successful_payments =
                    Cardinality({i \in inside : usage_history[i].success})
              /\ metrics.failed_payments >= 0
              /\ metrics.successful_payments + metrics.failed_payments
                    = metrics.total_requests
              /\ metrics.total_volume = SumCosts(inside)
              /\ metrics.total_requests = 0 => metrics.cost_efficiency = F64(0)
              /\ window >= now => metrics.total_requests = Len(usage_history)

C9_Witness ==
    /\ resp.op = "metrics"
    /\ Len(usage_history) = 2
    /\ resp.result.total_requests = 1
    /\ resp.result.total_volume = 4
    /\ resp.arg < now

PreferredLow ==
    {c \in {settings.preferred_chains[i] : i \in DOMAIN settings.preferred_chains} :
        /\ c \in DOMAIN chain_costs
        /\ FLt(chain_costs[c].success_rate, settings.reliability_threshold)}

\* C10: each preferred chain whose tracked success rate is below the threshold
\* produces exactly one suggestion, from that chain to a different chain (the
\* one with the highest success rate among the others) with potentialSavings
\* >= 0; other preferred chains produce none.
C10_Rebalancing ==
    resp.op = "rebalance" =>
        LET suggestions == resp.result
        IN  /\ \A c \in PreferredLow :
                  Cardinality({i \in DOMAIN suggestions :
                                  suggestions[i].from_chain = c}) = 1
            /\ \A i \in DOMAIN suggestions :
                  /\ suggestions[i].from_chain \in PreferredLow
                  /\ suggestions[i].to_chain # suggestions[i].from_chain
                  /\ \A o \in (DOMAIN chain_costs) \ {suggestions[i].from_chain} :
                        /\ suggestions[i].to_chain \in DOMAIN chain_costs
                        /\ ~FLt(chain_costs[suggestions[i].to_chain].success_rate,
                                chain_costs[o].success_rate)
                  /\ FLe(F64(0), suggestions[i].potential_savings)


-----------------------------------------------------------------------------
(* The auto-processing timer.  The closure of setup_auto_processing has no *)
(* await: a firing snapshots the pending payments and calls                *)
(* process_payment for each one in turn, as one message execution.         *)

\* The processor as a value: the three maps and the attempts history.
ProcessorState ==
    [pending |-> pending_payments, completed |-> completed_payments,
     retry |-> retry_counts, attempts |-> attempts]

\* process_payment (with handle_payment_failure) as a function of the
\* processor state; the Result is dropped, as the timer drops it.
process_payment_on(st, payment_id) ==
    IF payment_id \notin DOMAIN st.pending
    THEN st
    ELSE LET payment_clone == [st.pending[payment_id] EXCEPT !.status = "Processing"]
             processing == MapInsert(st.pending, payment_id, payment_clone)
             success == execute_blockchain_transaction(payment_clone)
             retry_count == IF payment_id \in DOMAIN st.retry
                            THEN st.retry[payment_id] ELSE 0
             attempted == [st.attempts EXCEPT ![payment_id] = @ + 1]
         IN  IF success
             THEN [pending |-> MapRemove(processing, payment_id),
                   completed |-> MapInsert(st.completed, payment_id,
                                    [payment_clone EXCEPT !.status = "Completed"]),
                   retry |-> MapRemove(st.retry, payment_id),
                   attempts |-> attempted]
             ELSE IF retry_count < 3
                  THEN [pending |-> [processing EXCEPT ![payment_id].status = "Pending"],
                        completed |-> st.completed,
                        retry |-> MapInsert(st.retry, payment_id, retry_count + 1),
                        attempts |-> attempted]
                  ELSE [pending |-> MapRemove(processing, payment_id),
                        completed |-> MapInsert(st.completed, payment_id,
                                         [processing[payment_id]
                                             EXCEPT !.status = "Failed"]),
                        retry |-> MapRemove(st.retry, payment_id),
                        attempts |-> attempted]

\* The loop of the timer closure over the snapshot it took.
auto_processing_idle(pending_list) == ProcessorState

auto_processing_twice(pending_list) ==
    LET twice == pending_list \o pending_list
        f[i \in 0..Len(twice)] ==
            IF i = 0 THEN ProcessorState
            ELSE IF twice[i].status = "Pending"
                 THEN process_payment_on(f[i - 1], twice[i].id)
                 ELSE f[i - 1]
    IN  f[Len(twice)]

auto_processing(pending_list) ==
    LET f[i \in 0..Len(pending_list)] ==
            IF i = 0 THEN ProcessorState
            ELSE IF pending_list[i].status = "Pending"
                 THEN process_payment_on(f[i - 1], pending_list[i].id)
                 ELSE f[i - 1]
    IN  f[Len(pending_list)]

\* One firing; order is the order list_pending_payments() yields the ids in.
\* resp records the snapshot and the ids process_payment was called for.
TimerFiring ==
    /\ \E order \in Orders(DOMAIN pending_payments) :
          LET pending_list == [i \in DOMAIN order |-> pending_payments[order[i]]]
              after == auto_processing(pending_list)
              called == SelectSeq(pending_list, LAMBDA p : p.status = "Pending")
          IN  /\ pending_payments' = after.pending
              /\ completed_payments' = after.completed
              /\ retry_counts' = after.retry
              /\ attempts' = after.attempts
              /\ resp' = [op |-> "timer",
                          arg |-> {order[i] : i \in DOMAIN order},
                          result |-> [i \in DOMAIN called |-> called[i].id]]
    /\ UNCHANGED now
    /\ others_unchanged_by_processor

NextTimer ==
    \/ SubmitPayment
    \/ ProcessPayment
    \/ CancelPayment
    \/ TimerFiring

SpecTimer == Init /\ [][NextTimer]_vars

\* The same operations under the timer's schedule: set_timer_interval keeps
\* firing the closure every 60 seconds.  Callers submit requests of one
\* status (submit_payment overwrites it) and time() stands still.
FairRequest == {r \in PaymentRequest : r.status = "Pending"}

FairSubmit ==
    /\ \E payment \in FairRequest : submit_payment(payment, now)
    /\ others_unchanged_by_processor

NextTimerFair ==
    \/ FairSubmit
    \/ ProcessPayment
    \/ CancelPayment
    \/ TimerFiring

SpecTimerFair == Init /\ [][NextTimerFair]_vars /\ WF_vars(TimerFiring)

-----------------------------------------------------------------------------
(* The canister: every mutating entry point behind is_authorized, called   *)
(* by any principal, and the timer.  resp holds the Result of the          *)
(* component call; an entry point turns its Ok into a message string.      *)

Unauthorized == "Unauthorized"

is_authorized_open(c) == TRUE

is_authorized(c) == Contains(authorized_principals, c) \/ c = Anonymous

add_authorized_principal(principal) ==
    /\ authorized_principals' =
          IF Contains(authorized_principals, principal)
          THEN authorized_principals
          ELSE Append(authorized_principals, principal)
    /\ resp' = [op |-> "add_principal", arg |-> principal,
                result |-> Ok("Principal authorized successfully")]

remove_authorized_principal(principal) ==
    /\ authorized_principals' =
          SelectSeq(authorized_principals, LAMBDA q : q # principal)
    /\ resp' = [op |-> "remove_principal", arg |-> principal,
                result |-> Ok("Principal deauthorized successfully")]

\* is_authorized()? returned the error: nothing else ran.
Rejected(op, arg) ==
    /\ resp' = [op |-> op, arg |-> arg, result |-> Err(Unauthorized)]
    /\ UNCHANGED <<processor_vars, registry_vars, optimizer_vars,
                   authorized_principals, now, hasher, attempts, recorded, pushed>>

CanisterPayment == {r \in PaymentRequest : r.id = "p1" /\ r.status = "Completed"}

CanisterSettings ==
    {DefaultSettings,
     [DefaultSettings EXCEPT !.max_cost_per_transaction = 20,
                             !.reliability_threshold = Fin(8, 10)]}

InitCanister == Init /\ hasher["p1"] \in {0, 7} /\ hasher["p2"] = 7

CanisterRegister ==
    \E c \in Principals :
        /\ caller' = c
        /\ IF is_authorized(c)
           THEN /\ register_provider(RingProvider)
                /\ UNCHANGED <<processor_vars, attempts, hasher, optimizer_vars,
                               recorded, now, authorized_principals>>
           ELSE Rejected("register", RingProvider)

CanisterDeactivate ==
    \E c \in Principals, id \in {"A"} :
        /\ caller' = c
        /\ IF is_authorized(c)
           THEN /\ deactivate_provider(id)
                /\ UNCHANGED <<processor_vars, attempts, hasher, optimizer_vars,
                               recorded, now, authorized_principals>>
           ELSE Rejected("deactivate", id)

CanisterSubmit ==
    \E c \in Principals, payment \in CanisterPayment :
        /\ caller' = c
        /\ IF is_authorized(c)
           THEN /\ submit_payment(payment, now)
                /\ UNCHANGED <<registry_vars, optimizer_vars, hasher, recorded,
                               pushed, authorized_principals>>
           ELSE Rejected("submit", payment)

CanisterProcess ==
    \E c \in Principals, id \in {"p1"} :
        /\ caller' = c
        /\ IF is_authorized(c)
           THEN /\ process_payment(id)
                /\ UNCHANGED <<registry_vars, optimizer_vars, hasher, recorded,
                               pushed, authorized_principals>>
           ELSE Rejected("process", id)

CanisterCancel ==
    \E c \in Principals, id \in {"p1"} :
        /\ caller' = c
        /\ IF is_authorized(c)
           THEN /\ cancel_payment(id)
                /\ UNCHANGED <<registry_vars, optimizer_vars, hasher, recorded,
                               pushed, authorized_principals>>
           ELSE Rejected("cancel", id)

CanisterRecordUsage ==
    /\ Total < MaxRouteUsage
    /\ \E c \in Principals, success \in BOOLEAN :
        /\ caller' = c
        /\ IF is_authorized(c)
           THEN /\ record_usage("REI", "A", 4, success, F64(2), now)
                /\ UNCHANGED <<processor_vars, attempts, hasher, registry_vars,
                               pushed, authorized_principals>>
           ELSE Rejected("record_usage", "REI")

CanisterUpdateSettings ==
    \E c \in Principals, new_settings \in CanisterSettings :
        /\ caller' = c
        /\ IF is_authorized(c)
           THEN /\ update_settings(new_settings)
                /\ UNCHANGED <<processor_vars, attempts, hasher, registry_vars,
                               pushed, authorized_principals>>
           ELSE Rejected("update_settings", new_settings)

AddAuthorizedPrincipal ==
    \E c \in Principals, principal \in {Controller, "mallory"} :
        /\ caller' = c
        /\ IF is_authorized(c)
           THEN /\ add_authorized_principal(principal)
                /\ UNCHANGED <<processor_vars, registry_vars, optimizer_vars, now,
                               hasher, attempts, recorded, pushed>>
           ELSE Rejected("add_principal", principal)

RemoveAuthorizedPrincipal ==
    \E c \in Principals, principal \in {Controller, "mallory"} :
        /\ caller' = c
        /\ IF is_authorized(c)
           THEN /\ remove_authorized_principal(principal)
                /\ UNCHANGED <<processor_vars, registry_vars, optimizer_vars, now,
                               hasher, attempts, recorded, pushed>>
           ELSE Rejected("remove_principal", principal)

NextCanister ==
    \/ CanisterRegister
    \/ CanisterDeactivate
    \/ CanisterSubmit
    \/ CanisterProcess
    \/ CanisterCancel
    \/ CanisterRecordUsage
    \/ CanisterUpdateSettings
    \/ AddAuthorizedPrincipal
    \/ RemoveAuthorizedPrincipal
    \/ TimerFiring

SpecCanister == InitCanister /\ [][NextCanister]_vars

-----------------------------------------------------------------------------
(* The registry: register_provider, update_provider_performance,           *)
(* deactivate_provider and get_best_provider.                              *)

\* The providers a caller registers with the registry: reliability on both
\* sides of the fixed 0.8 threshold, active or not.
RegistryProvider ==
    [id : {"A"}, name : {"a"}, api_endpoint : {"e"},
     supported_chains : {<<"REI">>}, cost_per_request : {5},
     reliability_score : {Fin(79, 100), Fin(99, 100)},
     last_ping : {0}, is_active : BOOLEAN]
    \cup
    [id : {"B"}, name : {"b"}, api_endpoint : {"e"},
     supported_chains : {<<"REI", "Polygon">>}, cost_per_request : {0, 10},
     reliability_score : {Fin(81, 100)},
     last_ping : {0}, is_active : {TRUE}]

ResponseTimes == {F64(0), F64(3)}
MaxCosts == {4, 10}

RegistryRegister ==
    /\ \E provider \in RegistryProvider : register_provider(provider)
    /\ others_unchanged_by_registry

RegistryPerformance ==
    /\ pushed["A"] + pushed["B"] < MaxPushes
    /\ \E id \in ProviderIds, response_time \in ResponseTimes :
          update_provider_performance(id, response_time)
    /\ others_unchanged_by_registry

GetBestProvider ==
    /\ \E chain \in Chains, max_cost \in MaxCosts, order \in Orders(DOMAIN providers) :
          resp' = [op |-> "best", arg |-> [chain |-> chain, max_cost |-> max_cost],
                   result |-> get_best_provider(chain, max_cost, order)]
    /\ UNCHANGED <<registry_vars, pushed>>
    /\ others_unchanged_by_registry

NextRegistry ==
    \/ RegistryRegister
    \/ RegistryPerformance
    \/ DeactivateProvider
    \/ GetBestProvider

SpecRegistry == InitServices /\ [][NextRegistry]_vars

-----------------------------------------------------------------------------
(* Value ranges: register_provider, record_usage and update_settings with  *)
(* arguments nothing validates.                                            *)

UnvalidatedProvider ==
    [id : {"A"}, name : {"a"}, api_endpoint : {"e"},
     supported_chains : {<<"REI">>}, cost_per_request : {5},
     reliability_score : {Fin(99, 100), Fin(3, 2), Fin(-1, 2), NaN},
     last_ping : {0}, is_active : {TRUE}]

RangeRegister ==
    /\ \E provider \in UnvalidatedProvider : register_provider(provider)
    /\ others_unchanged_by_registry

NextRange ==
    \/ RangeRegister
    \/ RebalanceRecordUsage
    \/ UpdateSettings

SpecRange == InitServices /\ [][NextRange]_vars

-----------------------------------------------------------------------------
(* Claims about the registry. *)

\* C11: a registered provider stays registered and an inactive provider
\* stays inactive across every operation; deactivate on a known id succeeds
\* and leaves it inactive, deactivate on an unknown id returns NotFound and
\* changes nothing.
C11_ActiveMonotonic ==
    [][/\ \A id \in DOMAIN providers :
             /\ id \in DOMAIN providers'
             /\ ~providers[id].is_active => ~providers'[id].is_active
       /\ resp'.op = "deactivate" =>
             IF resp'.arg \in DOMAIN providers
             THEN /\ resp'.result = Ok(Unit)
                  /\ ~providers'[resp'.arg].is_active
             ELSE /\ resp'.result = Err(ProviderNotFound)
                  /\ UNCHANGED <<providers, performance_history>>]_vars

\* Provider B (only ever registered active) has been deactivated, has seen a
\* performance update, and a later register call for it was made.
C11_Witness ==
    /\ "B" \in DOMAIN providers
    /\ ~providers["B"].is_active
    /\ pushed["B"] > 0
    /\ resp.op = "register"
    /\ resp.arg.id = "B"
    /\ resp.arg.is_active

\* C12: register with a registered id fails and leaves the stored provider
\* and its performance history unchanged; with a new id it stores the
\* provider as given and creates an empty performance history.
C12_Register ==
    [][resp'.op = "register" =>
          LET p == resp'.arg
          IN  IF p.id \in DOMAIN providers
              THEN /\ resp'.result = Err(AlreadyRegistered)
                   /\ UNCHANGED <<providers, performance_history>>
              ELSE /\ resp'.result = Ok(Unit)
                   /\ DOMAIN providers' = DOMAIN providers \cup {p.id}
                   /\ providers'[p.id] = p
                   /\ performance_history'[p.id] = <<>>
                   /\ \A id \in DOMAIN providers :
                         /\ providers'[id] = providers[id]
                         /\ performance_history'[id] = performance_history[id]]_vars

\* A rejected register call whose argument differs from the stored provider,
\* which has a performance history.
C12_Witness ==
    /\ resp.op = "register"
    /\ resp.result = Err(AlreadyRegistered)
    /\ providers[resp.arg.id] # resp.arg
    /\ performance_history[resp.arg.id] # <<>>

\* C13: recordPerformance on an unregistered id fails with NotFound and
\* leaves every performance history unchanged; on a registered id it appends
\* the response time to that provider's history only.
C13_RecordPerformance ==
    [][resp'.op = "performance" =>
          LET id == resp'.arg
          IN  IF id \notin DOMAIN providers
              THEN /\ resp'.result = Err(ProviderNotFound)
                   /\ UNCHANGED performance_history
              ELSE /\ Len(performance_history'[id]) = Len(performance_history[id]) + 1
                   /\ SubSeq(performance_history'[id], 1, Len(performance_history[id]))
                         = performance_history[id]
                   /\ \A o \in DOMAIN performance_history \ {id} :
                         performance_history'[o] = performance_history[o]]_vars

\* The composite score of the claim, from the stored provider and history.
BestScore(p) ==
    LET h == performance_history[p.id]
        perf == IF h = <<>> THEN Fin(1, 2)
                ELSE FDiv(F64(1), FAdd(FDiv(FSum(h), F64(Len(h))), F64(1)))
    IN  FAdd(FAdd(FMul(Fin(3, 10), FDiv(F64(1), F64(p.cost_per_request + 1))),
                  FMul(Fin(4, 10), p.reliability_score)),
             FMul(Fin(3, 10), perf))

BestCandidates(chain, max_cost) ==
    {p \in {providers[id] : id \in DOMAIN providers} :
        /\ p.is_active
        /\ \E i \in DOMAIN p.supported_chains : p.supported_chains[i] = chain
        /\ p.cost_per_request <= max_cost
        /\ ~FLt(p.reliability_score, Fin(8, 10))}

\* C14: selectBest returns none exactly when there is no candidate (active,
\* supports the chain, cost <= maxCost, reliability >= 0.8), and otherwise a
\* candidate whose composite score no other candidate undercuts.
C14_SelectBest ==
    resp.op = "best" =>
        LET cands == BestCandidates(resp.arg.chain, resp.arg.max_cost)
        IN  /\ (resp.result = None) <=> (cands = {})
            /\ resp.result # None =>
                  /\ resp.result[1] \in cands
                  /\ \A q \in cands :
                        ~FLt(BestScore(q), BestScore(resp.result[1]))

\* Two candidates with different scores: the one returned has the lower.
C14_Witness ==
    /\ resp.op = "best"
    /\ resp.result # None
    /\ \E q \in BestCandidates(resp.arg.chain, resp.arg.max_cost) :
          FLt(BestScore(resp.result[1]), BestScore(q))

InUnit(x) == FLe(F64(0), x) /\ FLe(x, F64(1))

\* C15: every registered provider's reliability score and every chain's
\* running success rate lie within [0,1].
C15_UnitRange ==
    /\ \A id \in DOMAIN providers : InUnit(providers[id].reliability_score)
    /\ \A c \in DOMAIN chain_costs : InUnit(chain_costs[c].success_rate)


-----------------------------------------------------------------------------
(* Claims about the timer and the payment lifecycle. *)

\* C17: a scheduler firing invokes process() at most once per payment id,
\* and only for ids that are pending with status Pending when the firing
\* starts; the ids it processes are pairwise distinct, one after the other.
C17_SchedulerOnce ==
    [][resp'.op = "timer" =>
          /\ \A id \in PaymentIds :
                /\ attempts'[id] \in {attempts[id], attempts[id] + 1}
                /\ attempts'[id] = attempts[id] + 1 =>
                      /\ id \in DOMAIN pending_payments
                      /\ pending_payments[id].status = "Pending"
          /\ \A i, j \in DOMAIN resp'.result :
                i # j => resp'.result[i] # resp'.result[j]]_vars

\* A firing over two pending payments, one of which stays pending for a
\* retry and is taken up again by a later firing.
C17_Witness ==
    /\ resp.op = "timer"
    /\ Len(resp.result) = 2
    /\ \E id \in DOMAIN pending_payments : attempts[id] >= 2

Terminal == {"Completed", "Failed", "Cancelled"}

\* C19: every archived payment has status Completed, Failed or Cancelled;
\* an archived payment is never changed, removed or made pending again;
\* process and cancel on an archived id return NotFound, submit DuplicateId.
C19_TerminalAbsorbing ==
    [][/\ \A id \in DOMAIN completed_payments' :
             completed_payments'[id].status \in Terminal
       /\ \A id \in DOMAIN completed_payments :
             /\ id \in DOMAIN completed_payments'
             /\ completed_payments'[id] = completed_payments[id]
             /\ id \notin DOMAIN pending_payments'
       /\ (resp'.op \in {"process", "cancel"} /\ resp'.arg \in DOMAIN completed_payments)
             => resp'.result = Err(NotFound)
       /\ (resp'.op = "submit" /\ resp'.arg.id \in DOMAIN completed_payments)
             => resp'.result = Err(DuplicateId)]_vars

\* Both ids archived, one of them Failed, and a submit for an archived id
\* was rejected.
C19_Witness ==
    /\ DOMAIN completed_payments = PaymentIds
    /\ \E id \in PaymentIds : completed_payments[id].status = "Failed"
    /\ resp.op = "submit"
    /\ resp.result = Err(DuplicateId)

\* C20: between operations every payment in the pending set has status
\* Pending; cancel never returns InvalidState and a scheduler firing calls
\* process for every payment of its snapshot.
C20_NoStoredProcessing ==
    /\ \A id \in DOMAIN pending_payments : pending_payments[id].status = "Pending"
    /\ resp.op = "cancel" => resp.result # Err(InvalidState)
    /\ resp.op = "timer" => {resp.result[i] : i \in DOMAIN resp.result} = resp.arg

\* A payment is pending again after failed attempts, the last of them made
\* by a firing.
C20_Witness ==
    /\ resp.op = "timer"
    /\ resp.arg # {}
    /\ \E id \in DOMAIN pending_payments : retry_counts[id] = 3


-----------------------------------------------------------------------------
(* Claims about the canister boundary. *)

Mutating ==
    {"register", "deactivate", "submit", "process", "cancel", "record_usage",
     "update_settings", "add_principal", "remove_principal"}

\* C16: a mutating entry point called by a principal that is neither on the
\* allow-list nor anonymous returns Unauthorized and leaves the registry,
\* the processor, the optimizer and the allow-list unchanged; an anonymous
\* caller is never rejected, whatever the allow-list holds.
C16_Authorization ==
    [][resp'.op \in Mutating =>
          /\ (/\ \A i \in DOMAIN authorized_principals :
                    authorized_principals[i] # caller'
              /\ caller' # Anonymous)
                => /\ resp'.result = Err(Unauthorized)
                   /\ UNCHANGED <<registry_vars, processor_vars, optimizer_vars,
                                  authorized_principals>>
          /\ caller' = Anonymous => resp'.result # Err(Unauthorized)]_vars

\* Every identity has been removed from the allow-list, a payment is
\* pending, and a process call by an unlisted principal was rejected.
C16_Witness ==
    /\ authorized_principals = <<>>
    /\ caller = "mallory"
    /\ resp.op = "process"
    /\ resp.result = Err(Unauthorized)
    /\ "p1" \in DOMAIN pending_payments

\* C18: submit, process (also from the timer) and cancel leave the usage
\* history, the chain statistics, the providers and the performance
\* histories unchanged; the usage history and the chain statistics change
\* only in record_usage, a stored performance history only in
\* update_provider_performance.
C18_StatisticsFrame ==
    [][/\ resp'.op \in {"submit", "process", "cancel", "timer"} =>
             UNCHANGED <<usage_history, chain_costs, providers, performance_history>>
       /\ <<usage_history, chain_costs>>' # <<usage_history, chain_costs>> =>
             resp'.op = "record_usage"
       /\ \A id \in DOMAIN performance_history :
             (id \in DOMAIN performance_history'
                /\ performance_history'[id] # performance_history[id])
                => resp'.op = "performance"]_vars

\* A payment went back to pending after a failed attempt while statistics
\* and a provider are stored.
C18_Witness ==
    /\ resp.op = "process"
    /\ resp.result = Ok(Unit)
    /\ "p1" \in DOMAIN pending_payments
    /\ retry_counts["p1"] > 0
    /\ usage_history # <<>>
    /\ DOMAIN chain_costs # {}
    /\ DOMAIN providers # {}


-----------------------------------------------------------------------------
(* Claims about retry counters, the backend and the metrics divisor. *)

\* C21: the ids with a retry counter are exactly the pending ids, every
\* retry counter is in 0..3, and no archived payment has a retry counter.
C21_RetryCounters ==
    /\ DOMAIN retry_counts = DOMAIN pending_payments
    /\ \A id \in DOMAIN retry_counts : retry_counts[id] \in 0..3
    /\ \A id \in DOMAIN completed_payments : id \notin DOMAIN retry_counts

\* One payment pending with its counter at 3, the other archived after a
\* cancel.
C21_Witness ==
    /\ \E id \in DOMAIN pending_payments : retry_counts[id] = 3
    /\ \E id \in DOMAIN completed_payments :
          completed_payments[id].status = "Cancelled"
    /\ resp.op = "cancel"
    /\ resp.result = Ok(Unit)

\* C23: every attempt on a payment has the outcome its id decides: a payment
\* whose attempts fail is never Completed, and a payment becomes Completed
\* only on its first attempt, with retry count 0.
C23_SameOutcome ==
    [][\A id \in PaymentIds :
          /\ (id \in DOMAIN completed_payments'
                /\ completed_payments'[id].status = "Completed")
                => /\ attempts'[id] = 1
                   /\ hasher[id] % 10 # 0
          /\ (id \in DOMAIN completed_payments'
                /\ id \notin DOMAIN completed_payments
                /\ completed_payments'[id].status = "Completed")
                => /\ attempts[id] = 0
                   /\ retry_counts[id] = 0
          /\ (attempts'[id] > attempts[id] /\ attempts[id] >= 1)
                => /\ hasher[id] % 10 = 0
                   /\ id \in DOMAIN completed_payments' =>
                         completed_payments'[id].status = "Failed"]_vars

\* One payment completed at its first attempt, the other failed after four.
C23_Witness ==
    /\ \E id \in DOMAIN completed_payments :
          completed_payments[id].status = "Completed" /\ attempts[id] = 1
    /\ \E id \in DOMAIN completed_payments :
          completed_payments[id].status = "Failed" /\ attempts[id] = 4

\* C24: whenever at least one record falls in the window of usageMetrics,
\* the total volume, the divisor of costEfficiency, is nonzero.
C24_NonzeroVolume ==
    resp.op = "metrics" =>
        (resp.result.total_requests > 0 => resp.result.total_volume # 0)


\* C22: with the timer firing again and again, every pending payment
\* eventually is archived with a terminal status; each firing makes one
\* attempt on every pending payment and a payment stays pending for at most
\* three attempts, so the fourth firing after its submission archives it.
C22_EventuallyTerminal ==
    /\ \A id \in PaymentIds :
          (id \in DOMAIN pending_payments)
             ~> (/\ id \in DOMAIN completed_payments
                 /\ completed_payments[id].status \in Terminal)
    /\ [](\A id \in DOMAIN pending_payments : attempts[id] <= 3)
    /\ [][resp'.op = "timer" =>
             \A id \in DOMAIN pending_payments :
                /\ attempts'[id] = attempts[id] + 1
                /\ attempts[id] = 3 => id \in DOMAIN completed_payments']_vars

\* A firing made the fourth attempt on a payment and archived it as Failed.
C22_Witness ==
    /\ resp.op = "timer"
    /\ \E id \in resp.arg :
          /\ id \in DOMAIN completed_payments
          /\ completed_payments[id].status = "Failed"
          /\ attempts[id] = 4

=============================================================================
